---- MODULE Spec2Model ----
(***************************************************************************)
(* Model of src/user_main.c: an ESP8266 task that drives an ADS1115 over   *)
(* I2C.  The register transaction layer (i2c_example_master_ADS1115_write  *)
(* and _read) is modelled as a procedure with a program counter and a      *)
(* return address; the polling task (i2c_task_example) is its caller.      *)
(* The I2C driver is external: its command-link builders append primitives *)
(* to the link, and i2c_master_cmd_begin returns any of the five statuses  *)
(* the source documents.                                                   *)
(*                                                                         *)
(* Spec    : the task as started by app_main.                              *)
(* SpecFn  : one call of write or read with arguments drawn from bounded   *)
(*           sets (all register addresses, all buffers up to MaxLen).      *)
(***************************************************************************)
EXTENDS Integers, Sequences, FiniteSets, TLC

\* ------------------------------------------------------------- bounds
\* longest data buffer handed to write / read
MaxLen == 2
\* data bytes range over 0..MaxByte
MaxByte == 1

Bytes == 0..MaxByte
Bufs(n) == [1..n -> Bytes]

\* ---------------------------------------------------------- constants
WRITE_BIT == 0
READ_BIT == 1
ACK_CHECK_EN == 1
ACK_CHECK_DIS == 0
ACK_VAL == 0
NACK_VAL == 1
LAST_NACK_VAL == 2
ADS1115_SENSOR_ADDR_GND == 72
CONVERSION_REG == 0
CONFIG_REG == 1
LO_THRESH_REG == 2
HI_THRESH_REG == 3
\* vTaskDelay(100 / portTICK_RATE_MS) in ADS1115_init and in the loop
INIT_DELAY_MS == 100
LOOP_DELAY_MS == 100
\* i2c_master_cmd_begin(..., 1000 / portTICK_RATE_MS)
CMD_TIMEOUT_MS == 1000

Registers == {CONVERSION_REG, CONFIG_REG, LO_THRESH_REG, HI_THRESH_REG}

ESP_OK == "ESP_OK"
ESP_ERR_INVALID_ARG == "ESP_ERR_INVALID_ARG"
ESP_FAIL == "ESP_FAIL"
ESP_ERR_INVALID_STATE == "ESP_ERR_INVALID_STATE"
ESP_ERR_TIMEOUT == "ESP_ERR_TIMEOUT"
\* the statuses the driver can report
Status == {ESP_OK, ESP_ERR_INVALID_ARG, ESP_FAIL, ESP_ERR_INVALID_STATE, ESP_ERR_TIMEOUT}
\* no call has returned yet
NoResult == "none"

\* ------------------------------------------------------ bit arithmetic
RECURSIVE BitOr(_, _)
BitOr(a, b) ==
    IF a = 0 THEN b
    ELSE IF b = 0 THEN a
    ELSE (IF a % 2 = 1 \/ b % 2 = 1 THEN 1 ELSE 0) + 2 * BitOr(a \div 2, b \div 2)

\* x << 1
Shl1(x) == 2 * x

\* the uint8_t argument  ADS1115_SENSOR_ADDR_GND << 1 | rw
AddrByte(rw) == BitOr(Shl1(ADS1115_SENSOR_ADDR_GND), rw) % 256

\* ------------------------------------------- driver command-link builders
i2c_master_start(link) == Append(link, <<"start">>)
i2c_master_write_byte(link, byte, ack_en) == Append(link, <<"write", byte, ack_en>>)
\* queues the len bytes of buf in order, each with the same ack_en
i2c_master_write(link, buf, len, ack_en) ==
    link \o [i \in 1..len |-> <<"write", buf[i], ack_en>>]
\* queues one read of len bytes under acknowledgment mode ack
i2c_master_read(link, len, ack) == Append(link, <<"read", len, ack>>)
i2c_master_stop(link) == Append(link, <<"stop">>)

\* what the driver puts on the bus for a queued read of len bytes under mode
\* ack: the same value after every byte, except that the last_nack mode
\* acknowledges every byte but the last and refuses the last
DriverReadAcks(len, ack) ==
    [i \in 1..len |->
        IF ack = LAST_NACK_VAL
          THEN (IF i = len THEN NACK_VAL ELSE ACK_VAL)
          ELSE ack]

\* variant: the data bytes are queued without acknowledgment checking
WriteLink_DataUnchecked(reg, buf, len) ==
    i2c_master_stop(
      i2c_master_write(
        i2c_master_write_byte(
          i2c_master_write_byte(
            i2c_master_start(<<>>), AddrByte(WRITE_BIT), ACK_CHECK_EN),
          reg, ACK_CHECK_EN),
        buf, len, ACK_CHECK_DIS))

\* the link i2c_example_master_ADS1115_write builds
WriteLink(reg, buf, len) ==
    i2c_master_stop(
      i2c_master_write(
        i2c_master_write_byte(
          i2c_master_write_byte(
            i2c_master_start(<<>>), AddrByte(WRITE_BIT), ACK_CHECK_EN),
          reg, ACK_CHECK_EN),
        buf, len, ACK_CHECK_EN))

\* the first link i2c_example_master_ADS1115_read builds (register pointer)
ReadPtrLink(reg) ==
    i2c_master_stop(
      i2c_master_write_byte(
        i2c_master_write_byte(
          i2c_master_start(<<>>), AddrByte(WRITE_BIT), ACK_CHECK_EN),
        reg, ACK_CHECK_EN))

\* variant: the data link addresses the device with the write direction
ReadDataLink_WriteBit(len) ==
    i2c_master_stop(
      i2c_master_read(
        i2c_master_write_byte(
          i2c_master_start(<<>>), AddrByte(WRITE_BIT), ACK_CHECK_EN),
        len, LAST_NACK_VAL))

\* variant: the read is queued with the per-byte acknowledgment value
ReadDataLink_AckEveryByte(len) ==
    i2c_master_stop(
      i2c_master_read(
        i2c_master_write_byte(
          i2c_master_start(<<>>), AddrByte(READ_BIT), ACK_CHECK_EN),
        len, ACK_VAL))

\* the second link i2c_example_master_ADS1115_read builds (data)
ReadDataLink(len) ==
    i2c_master_stop(
      i2c_master_read(
        i2c_master_write_byte(
          i2c_master_start(<<>>), AddrByte(READ_BIT), ACK_CHECK_EN),
        len, LAST_NACK_VAL))

\* ------------------------------------------------------------- state
VARIABLES
    pc,           \* position of the task
    retTo,        \* where the running write / read call returns to
    fn,           \* the function of the running or last call
    reg_address,  \* argument of the call
    data,         \* argument of the call: the len bytes behind the pointer
    data_len,     \* argument of the call
    cmd,          \* the command link being built
    links,        \* number of live command links
    ret,          \* local ret of write / read
    sub,          \* submissions made by the running or last call
    result,       \* value returned by the last call
    installRet,   \* status of i2c_driver_install
    configRet,    \* status of i2c_param_config
    trace,        \* calls made while initializing, in order
    logs,         \* log lines of the current loop iteration
    naps,         \* delays taken since the last read was issued
    sensor_data   \* local of the task, never assigned

callVars == <<fn, reg_address, data, data_len, cmd, links, ret, sub, result>>
taskVars == <<installRet, configRet, trace, logs, naps, sensor_data>>
vars == <<pc, retTo, fn, reg_address, data, data_len, cmd, links, ret, sub, result,
          installRet, configRet, trace, logs, naps, sensor_data>>

\* ------------------------------------- i2c_example_master_ADS1115_write
\* i2c_cmd_link_create ... i2c_master_stop
ADS1115_write_Build ==
    /\ pc = "write_build"
    /\ cmd' = WriteLink(reg_address, data, data_len)
    /\ links' = links + 1
    /\ pc' = "write_begin"
    /\ UNCHANGED <<retTo, fn, reg_address, data, data_len, ret, sub, result>>
    /\ UNCHANGED taskVars

\* ret = i2c_master_cmd_begin(...)
ADS1115_write_Begin ==
    /\ pc = "write_begin"
    /\ \E st \in Status :
         /\ ret' = st
         /\ sub' = Append(sub, [site |-> "write", txn |-> cmd, timeout |-> CMD_TIMEOUT_MS, status |-> st])
    /\ pc' = "write_delete"
    /\ UNCHANGED <<retTo, fn, reg_address, data, data_len, cmd, links, result>>
    /\ UNCHANGED taskVars

\* i2c_cmd_link_delete(cmd)
ADS1115_write_Delete ==
    /\ pc = "write_delete"
    /\ cmd' = <<>>
    /\ links' = links - 1
    /\ pc' = "write_return"
    /\ UNCHANGED <<retTo, fn, reg_address, data, data_len, ret, sub, result>>
    /\ UNCHANGED taskVars

\* variant: a failed submission is tried once more
ADS1115_write_Return_Retry ==
    /\ pc = "write_return"
    /\ IF ret # ESP_OK /\ Len(sub) < 2
         THEN /\ result' = result
              /\ pc' = "write_build"
         ELSE /\ result' = ret
              /\ pc' = retTo
    /\ UNCHANGED <<retTo, fn, reg_address, data, data_len, cmd, links, ret, sub>>
    /\ UNCHANGED taskVars

\* return ret
ADS1115_write_Return ==
    /\ pc = "write_return"
    /\ result' = ret
    /\ pc' = retTo
    /\ UNCHANGED <<retTo, fn, reg_address, data, data_len, cmd, links, ret, sub>>
    /\ UNCHANGED taskVars

\* -------------------------------------- i2c_example_master_ADS1115_read
ADS1115_read_BuildPtr ==
    /\ pc = "read_build_ptr"
    /\ cmd' = ReadPtrLink(reg_address)
    /\ links' = links + 1
    /\ pc' = "read_begin_ptr"
    /\ UNCHANGED <<retTo, fn, reg_address, data, data_len, ret, sub, result>>
    /\ UNCHANGED taskVars

ADS1115_read_BeginPtr ==
    /\ pc = "read_begin_ptr"
    /\ \E st \in Status :
         /\ ret' = st
         /\ sub' = Append(sub, [site |-> "ptr", txn |-> cmd, timeout |-> CMD_TIMEOUT_MS, status |-> st])
    /\ pc' = "read_delete_ptr"
    /\ UNCHANGED <<retTo, fn, reg_address, data, data_len, cmd, links, result>>
    /\ UNCHANGED taskVars

\* variant: the pointer-set link is deleted only on the way to the data link
ADS1115_read_DeletePtr_LeakOnFailure ==
    /\ pc = "read_delete_ptr"
    /\ cmd' = <<>>
    /\ links' = IF ret = ESP_OK THEN links - 1 ELSE links
    /\ pc' = "read_check"
    /\ UNCHANGED <<retTo, fn, reg_address, data, data_len, ret, sub, result>>
    /\ UNCHANGED taskVars

ADS1115_read_DeletePtr ==
    /\ pc = "read_delete_ptr"
    /\ cmd' = <<>>
    /\ links' = links - 1
    /\ pc' = "read_check"
    /\ UNCHANGED <<retTo, fn, reg_address, data, data_len, ret, sub, result>>
    /\ UNCHANGED taskVars

\* variant: the status of the pointer-set submission is not looked at
ADS1115_read_Check_NoEarlyReturn ==
    /\ pc = "read_check"
    /\ result' = result
    /\ pc' = "read_build_data"
    /\ UNCHANGED <<retTo, fn, reg_address, data, data_len, cmd, links, ret, sub>>
    /\ UNCHANGED taskVars

\* variant: a failed pointer-set is reported as ESP_FAIL whatever it was
ADS1115_read_Check_Translate ==
    /\ pc = "read_check"
    /\ IF ret # ESP_OK
         THEN /\ result' = ESP_FAIL
              /\ pc' = retTo
         ELSE /\ result' = result
              /\ pc' = "read_build_data"
    /\ UNCHANGED <<retTo, fn, reg_address, data, data_len, cmd, links, ret, sub>>
    /\ UNCHANGED taskVars

\* if (ret != ESP_OK) return ret;
ADS1115_read_Check ==
    /\ pc = "read_check"
    /\ IF ret # ESP_OK
         THEN /\ result' = ret
              /\ pc' = retTo
         ELSE /\ result' = result
              /\ pc' = "read_build_data"
    /\ UNCHANGED <<retTo, fn, reg_address, data, data_len, cmd, links, ret, sub>>
    /\ UNCHANGED taskVars

ADS1115_read_BuildData ==
    /\ pc = "read_build_data"
    /\ cmd' = ReadDataLink(data_len)
    /\ links' = links + 1
    /\ pc' = "read_begin_data"
    /\ UNCHANGED <<retTo, fn, reg_address, data, data_len, ret, sub, result>>
    /\ UNCHANGED taskVars

\* the driver executes the read primitive: it may store into the buffer
ADS1115_read_BeginData ==
    /\ pc = "read_begin_data"
    /\ \E st \in Status :
         /\ ret' = st
         /\ sub' = Append(sub, [site |-> "data", txn |-> cmd, timeout |-> CMD_TIMEOUT_MS, status |-> st])
    /\ data' \in Bufs(data_len)
    /\ pc' = "read_delete_data"
    /\ UNCHANGED <<retTo, fn, reg_address, data_len, cmd, links, result>>
    /\ UNCHANGED taskVars

ADS1115_read_DeleteData ==
    /\ pc = "read_delete_data"
    /\ cmd' = <<>>
    /\ links' = links - 1
    /\ pc' = "read_return"
    /\ UNCHANGED <<retTo, fn, reg_address, data, data_len, ret, sub, result>>
    /\ UNCHANGED taskVars

\* variant: every failure of the data submission is reported as ESP_FAIL
ADS1115_read_Return_Collapse ==
    /\ pc = "read_return"
    /\ result' = IF ret = ESP_OK THEN ESP_OK ELSE ESP_FAIL
    /\ pc' = retTo
    /\ UNCHANGED <<retTo, fn, reg_address, data, data_len, cmd, links, ret, sub>>
    /\ UNCHANGED taskVars

ADS1115_read_Return ==
    /\ pc = "read_return"
    /\ result' = ret
    /\ pc' = retTo
    /\ UNCHANGED <<retTo, fn, reg_address, data, data_len, cmd, links, ret, sub>>
    /\ UNCHANGED taskVars

\* -------------------------------------------------- i2c_example_master_init
\* variant: the status of i2c_driver_install is not checked
master_init_Install_Unchecked ==
    /\ pc = "install"
    /\ \E st \in Status :
         /\ installRet' = st
         /\ trace' = Append(trace, <<"i2c_driver_install", st>>)
         /\ pc' = "config"
    /\ UNCHANGED <<retTo, configRet, logs, naps, sensor_data>>
    /\ UNCHANGED callVars

\* ESP_ERROR_CHECK(i2c_driver_install(...)): abort() unless ESP_OK
master_init_Install ==
    /\ pc = "install"
    /\ \E st \in Status :
         /\ installRet' = st
         /\ trace' = Append(trace, <<"i2c_driver_install", st>>)
         /\ pc' = IF st = ESP_OK THEN "config" ELSE "abort"
    /\ UNCHANGED <<retTo, configRet, logs, naps, sensor_data>>
    /\ UNCHANGED callVars

\* variant: the status of i2c_param_config is not checked
master_init_Config_Unchecked ==
    /\ pc = "config"
    /\ \E st \in Status :
         /\ configRet' = st
         /\ trace' = Append(trace, <<"i2c_param_config", st>>)
         /\ pc' = "init_write"
    /\ UNCHANGED <<retTo, installRet, logs, naps, sensor_data>>
    /\ UNCHANGED callVars

\* ESP_ERROR_CHECK(i2c_param_config(...)): abort() unless ESP_OK
master_init_Config ==
    /\ pc = "config"
    /\ \E st \in Status :
         /\ configRet' = st
         /\ trace' = Append(trace, <<"i2c_param_config", st>>)
         /\ pc' = IF st = ESP_OK THEN "init_write" ELSE "abort"
    /\ UNCHANGED <<retTo, installRet, logs, naps, sensor_data>>
    /\ UNCHANGED callVars

\* ------------------------------------------ i2c_example_master_ADS1115_init
\* variant: the bus setup starts at i2c_param_config and leaves out the install
ADS1115_init_Delay_ConfigFirst ==
    /\ pc = "init_delay"
    /\ trace' = Append(trace, <<"vTaskDelay", INIT_DELAY_MS>>)
    /\ naps' = Append(naps, INIT_DELAY_MS)
    /\ pc' = "config"
    /\ UNCHANGED <<retTo, installRet, configRet, logs, sensor_data>>
    /\ UNCHANGED callVars

\* vTaskDelay(100 / portTICK_RATE_MS)
ADS1115_init_Delay ==
    /\ pc = "init_delay"
    /\ trace' = Append(trace, <<"vTaskDelay", INIT_DELAY_MS>>)
    /\ naps' = Append(naps, INIT_DELAY_MS)
    /\ pc' = "install"
    /\ UNCHANGED <<retTo, installRet, configRet, logs, sensor_data>>
    /\ UNCHANGED callVars

\* i2c_example_master_ADS1115_write(i2c_num, CONFIG_REG, &cmd_data, 1):
\* cmd_data is never initialized, so the byte sent is any byte
ADS1115_init_Write ==
    /\ pc = "init_write"
    /\ \E cmd_data \in Bytes :
         /\ data' = <<cmd_data>>
         /\ trace' = Append(trace, <<"write", CONFIG_REG, <<cmd_data>>, 1>>)
    /\ fn' = "write"
    /\ reg_address' = CONFIG_REG
    /\ data_len' = 1
    /\ sub' = <<>>
    /\ retTo' = "init_check"
    /\ pc' = "write_build"
    /\ UNCHANGED <<cmd, links, ret, result>>
    /\ UNCHANGED <<installRet, configRet, logs, naps, sensor_data>>

\* variant: the status of the configuration write is not checked
ADS1115_init_Check_Unchecked ==
    /\ pc = "init_check"
    /\ pc' = "loop_read"
    /\ UNCHANGED retTo
    /\ UNCHANGED callVars
    /\ UNCHANGED taskVars

\* ESP_ERROR_CHECK(<the write>): abort() unless ESP_OK
ADS1115_init_Check ==
    /\ pc = "init_check"
    /\ pc' = IF result = ESP_OK THEN "loop_read" ELSE "abort"
    /\ UNCHANGED retTo
    /\ UNCHANGED callVars
    /\ UNCHANGED taskVars

\* ------------------------------------------------------- i2c_task_example
\* ret = i2c_example_master_ADS1115_read(I2C_EXAMPLE_MASTER_NUM,
\*                                       CONVERSION_REG, sensor_data);
\* The call names three arguments for four parameters: the pointer is the
\* value of sensor_data and the length is not given, so the length and the
\* bytes behind the pointer are any.
task_Read ==
    /\ pc = "loop_read"
    /\ fn' = "read"
    /\ reg_address' = CONVERSION_REG
    /\ \E n \in 0..MaxLen :
         /\ data_len' = n
         /\ data' \in Bufs(n)
    /\ sub' = <<>>
    /\ logs' = <<>>
    /\ naps' = <<>>
    /\ retTo' = "loop_branch"
    /\ pc' = "read_build_ptr"
    /\ UNCHANGED <<cmd, links, ret, result>>
    /\ UNCHANGED <<installRet, configRet, trace, sensor_data>>

\* if (ret == ESP_OK) ESP_LOGI(TAG, "*******************\n");
task_LogStars ==
    /\ pc = "loop_branch"
    /\ result = ESP_OK
    /\ logs' = Append(logs, <<"I", "*******************\n", <<>>>>)
    /\ pc' = "loop_log_data"
    /\ UNCHANGED <<retTo, installRet, configRet, trace, naps, sensor_data>>
    /\ UNCHANGED callVars

\* ESP_LOGI(TAG, "sensor_data: \n", (int16_t)(sensor_data));
task_LogData ==
    /\ pc = "loop_log_data"
    /\ logs' = Append(logs, <<"I", "sensor_data: \n", <<sensor_data>>>>)
    /\ pc' = "loop_delay"
    /\ UNCHANGED <<retTo, installRet, configRet, trace, naps, sensor_data>>
    /\ UNCHANGED callVars

\* variant: a failed read is fatal, like the failures at boot
task_LogError_Abort ==
    /\ pc = "loop_branch"
    /\ result # ESP_OK
    /\ logs' = Append(logs, <<"E", "No ack, sensor not connected...skip...\n", <<>>>>)
    /\ pc' = "abort"
    /\ UNCHANGED <<retTo, installRet, configRet, trace, naps, sensor_data>>
    /\ UNCHANGED callVars

\* variant: a failed read is skipped without a log line
task_LogError_Silent ==
    /\ pc = "loop_branch"
    /\ result # ESP_OK
    /\ logs' = logs
    /\ pc' = "loop_delay"
    /\ UNCHANGED <<retTo, installRet, configRet, trace, naps, sensor_data>>
    /\ UNCHANGED callVars

\* else ESP_LOGE(TAG, "No ack, sensor not connected...skip...\n");
task_LogError ==
    /\ pc = "loop_branch"
    /\ result # ESP_OK
    /\ logs' = Append(logs, <<"E", "No ack, sensor not connected...skip...\n", <<>>>>)
    /\ pc' = "loop_delay"
    /\ UNCHANGED <<retTo, installRet, configRet, trace, naps, sensor_data>>
    /\ UNCHANGED callVars

\* variant: the loop runs while the last read succeeded
WhileCond_UntilFailure == result = ESP_OK

\* the condition of while (1)
WhileCond == TRUE

\* variant: every iteration configures the device again
task_Delay_Reinit ==
    /\ pc = "loop_delay"
    /\ naps' = Append(naps, LOOP_DELAY_MS)
    /\ pc' = "init_write"
    /\ UNCHANGED <<retTo, installRet, configRet, trace, logs, sensor_data>>
    /\ UNCHANGED callVars

\* vTaskDelay(100 / portTICK_RATE_MS); back to the test of while (1), which
\* leaves the loop for i2c_driver_delete (line 248) when it is false
task_Delay ==
    /\ pc = "loop_delay"
    /\ naps' = Append(naps, LOOP_DELAY_MS)
    /\ pc' = IF WhileCond THEN "loop_read" ELSE "driver_delete"
    /\ UNCHANGED <<retTo, installRet, configRet, trace, logs, sensor_data>>
    /\ UNCHANGED callVars

\* ------------------------------------------------------ specifications
WriteNext ==
    \/ ADS1115_write_Build
    \/ ADS1115_write_Begin
    \/ ADS1115_write_Delete
    \/ ADS1115_write_Return

ReadNext ==
    \/ ADS1115_read_BuildPtr
    \/ ADS1115_read_BeginPtr
    \/ ADS1115_read_DeletePtr
    \/ ADS1115_read_Check
    \/ ADS1115_read_BuildData
    \/ ADS1115_read_BeginData
    \/ ADS1115_read_DeleteData
    \/ ADS1115_read_Return

TaskNext ==
    \/ ADS1115_init_Delay
    \/ master_init_Install
    \/ master_init_Config
    \/ ADS1115_init_Write
    \/ ADS1115_init_Check
    \/ task_Read
    \/ task_LogStars
    \/ task_LogData
    \/ task_LogError
    \/ task_Delay

\* app_main: the task starts at i2c_example_master_ADS1115_init
Init ==
    /\ pc = "init_delay"
    /\ retTo = "none"
    /\ fn = "none"
    /\ reg_address = 0
    /\ data = <<>>
    /\ data_len = 0
    /\ cmd = <<>>
    /\ links = 0
    /\ ret = NoResult
    /\ sub = <<>>
    /\ result = NoResult
    /\ installRet = NoResult
    /\ configRet = NoResult
    /\ trace = <<>>
    /\ logs = <<>>
    /\ naps = <<>>
    /\ sensor_data \in Bytes

Next == TaskNext \/ WriteNext \/ ReadNext

Spec == Init /\ [][Next]_vars

\* every call the task makes returns, and the scheduler keeps running the task
FairSpec == Spec /\ WF_vars(Next)

\* one call of write or read, with any register and any buffer up to MaxLen
InitFn ==
    /\ fn \in {"write", "read"}
    /\ pc = IF fn = "write" THEN "write_build" ELSE "read_build_ptr"
    /\ retTo = "returned"
    /\ reg_address \in Registers
    /\ data_len \in 0..MaxLen
    /\ data \in Bufs(data_len)
    /\ cmd = <<>>
    /\ links = 0
    /\ ret = NoResult
    /\ sub = <<>>
    /\ result = NoResult
    /\ installRet = ESP_OK
    /\ configRet = ESP_OK
    /\ trace = <<>>
    /\ logs = <<>>
    /\ naps = <<>>
    /\ sensor_data = 0

NextFn == WriteNext \/ ReadNext

SpecFn == InitFn /\ [][NextFn]_vars

\* ------------------------------------------------------------ properties
WritePCs == {"write_build", "write_begin", "write_delete", "write_return"}
ReadPCs == {"read_build_ptr", "read_begin_ptr", "read_delete_ptr", "read_check",
            "read_build_data", "read_begin_data", "read_delete_data", "read_return"}
\* the call named by fn has returned to its caller
Returned == fn # "none" /\ pc \notin (WritePCs \cup ReadPCs)
Failures == Status \ {ESP_OK}
InstallFailed == installRet \in Failures
ConfigFailed == configRet \in Failures
Sites(s) == [i \in 1..Len(s) |-> s[i].site]
ErrorLine == <<"E", "No ack, sensor not connected...skip...\n", <<>>>>

\* C1: in a call of read the pointer-set submission comes first, and the data
\* submission is made exactly when the pointer-set submission returned
\* ESP_OK: after any of the four failure statuses the call returns with the
\* pointer-set submission as its only one.
C1_PointerSetThenData ==
    fn = "read" =>
      /\ Sites(sub) \in {<<>>, <<"ptr">>, <<"ptr", "data">>}
      /\ Len(sub) = 2 => sub[1].status = ESP_OK
      /\ (Len(sub) = 1 /\ sub[1].status = ESP_OK) => pc \in ReadPCs
      /\ Returned => Len(sub) >= 1
      /\ Returned => (Len(sub) = 2 <=> sub[1].status = ESP_OK)

C1_Witness ==
    /\ fn = "read"
    /\ Returned
    /\ Len(sub) = 1
    /\ sub[1].status = ESP_ERR_TIMEOUT

\* C2: read returns the pointer-set status when that is not ESP_OK, and the
\* data status otherwise; the value returned is one the driver reported in
\* this call.
C2_ReadReturnsDriverStatus ==
    (fn = "read" /\ Returned) =>
      /\ Len(sub) >= 1
      /\ result = IF sub[1].status # ESP_OK THEN sub[1].status ELSE sub[Len(sub)].status
      /\ \E i \in 1..Len(sub) : result = sub[i].status

C2_Witness ==
    /\ fn = "read"
    /\ Returned
    /\ Len(sub) = 2
    /\ sub[2].status = ESP_ERR_INVALID_STATE
    /\ result = ESP_ERR_INVALID_STATE

\* C3: the transaction write submits is start, the address byte 0x90 (144),
\* the register address byte, the data bytes in order, stop, with
\* acknowledgment checking on every byte written and nothing else queued.
C3_WriteTransaction ==
    (fn = "write" /\ Len(sub) >= 1) =>
      sub[1].txn = <<<<"start">>, <<"write", 144, 1>>, <<"write", reg_address, 1>>>>
                   \o [i \in 1..data_len |-> <<"write", data[i], 1>>]
                   \o <<<<"stop">>>>

C3_Witness ==
    /\ fn = "write"
    /\ Len(sub) = 1
    /\ reg_address = HI_THRESH_REG
    /\ data_len = 2
    /\ data[1] # data[2]

C5_LastByteTerminalAck ==
    (fn = "read" /\ Len(sub) = 2 /\ data_len > 1) =>
      LET rd == sub[2].txn[3]
          acks == DriverReadAcks(rd[2], rd[3])
      IN  /\ Len(acks) = data_len
          /\ \A i \in 1..(data_len - 1) : acks[i] = ACK_VAL
          /\ acks[data_len] = NACK_VAL
          /\ \E i, j \in 1..data_len : acks[i] # acks[j]

C5_Witness ==
    /\ fn = "read"
    /\ Len(sub) = 2
    /\ data_len = 2
    /\ sub[2].txn[3] = <<"read", 2, LAST_NACK_VAL>>

\* C6: a call of write submits its transaction once, whatever the status,
\* and returns the status of that submission.
C6_WriteSubmitsOnce ==
    fn = "write" =>
      /\ Len(sub) <= 1
      /\ Returned => /\ Sites(sub) = <<"write">>
                     /\ result = sub[1].status

C6_Witness ==
    /\ fn = "write"
    /\ Returned
    /\ Len(sub) = 1
    /\ sub[1].status = ESP_ERR_INVALID_ARG
    /\ result = ESP_ERR_INVALID_ARG

\* C7: once i2c_driver_install or i2c_param_config has reported a failure
\* the process has aborted: the loop is not entered, no write or read is
\* called and nothing is submitted.
C7_BootFailureAborts ==
    (InstallFailed \/ ConfigFailed) =>
      /\ pc = "abort"
      /\ fn = "none"
      /\ sub = <<>>
      /\ logs = <<>>

C7_Witness ==
    /\ pc = "abort"
    /\ installRet = ESP_OK
    /\ configRet = ESP_ERR_INVALID_ARG

\* C8: in the polling loop a failed read never aborts the task: the error
\* line is logged, the fixed delay is taken and the next read is issued,
\* which returns in turn; so reads, and under a driver failing every read
\* error lines, recur for ever.
C8_LoopSurvivesFailedRead ==
    /\ [][(retTo = "loop_branch") => (pc' # "abort")]_vars
    /\ (pc = "loop_branch" /\ result # ESP_OK)
          ~> (pc = "loop_delay" /\ logs = <<ErrorLine>>)
    /\ (pc = "loop_delay" /\ logs = <<ErrorLine>>)
          ~> (pc = "loop_read" /\ naps = <<LOOP_DELAY_MS>>)
    /\ (pc = "loop_read") ~> (pc = "read_build_ptr")
    /\ (pc = "read_build_ptr" /\ retTo = "loop_branch") ~> (pc = "loop_branch")

C8_Witness ==
    /\ pc = "read_build_ptr"
    /\ retTo = "loop_branch"
    /\ result = ESP_FAIL

\* C9 as stated: only a failure of driver installation or bus configuration
\* ends in abort.
C9_OnlyInstallFatal ==
    pc = "abort" => (InstallFailed \/ ConfigFailed)

\* C9 amended: abort follows a failure of i2c_driver_install, of
\* i2c_param_config or of the configuration write of ADS1115_init, which is
\* fatal too; a read never ends in abort, whatever it returns.
C9_BootAndConfigWriteFatal ==
    /\ pc = "abort" =>
         \/ InstallFailed
         \/ ConfigFailed
         \/ (fn = "write" /\ result \in Failures)
    /\ (fn = "write" /\ Returned /\ result \in Failures) => pc \in {"init_check", "abort"}
    /\ fn = "read" => pc # "abort"

C9_Witness ==
    /\ pc = "abort"
    /\ installRet = ESP_OK
    /\ configRet = ESP_OK
    /\ fn = "write"
    /\ result = ESP_FAIL

\* C10 as stated: one log line per iteration, informational after a
\* successful read and an error line after a failed one.
C10_OneLinePerIteration ==
    pc = "loop_delay" =>
      /\ Len(logs) = 1
      /\ logs[1][1] = IF result = ESP_OK THEN "I" ELSE "E"

\* C10 amended: between the return of read and the delay the task logs two
\* informational lines and no error line after a successful read, and one
\* error line and no informational line after a failed one.
C10_LinesPerIteration ==
    pc = "loop_delay" =>
      IF result = ESP_OK
        THEN /\ Len(logs) = 2
             /\ \A i \in 1..2 : logs[i][1] = "I"
        ELSE /\ Len(logs) = 1
             /\ logs[1][1] = "E"

C10_Witness ==
    /\ pc = "loop_delay"
    /\ result = ESP_OK
    /\ Len(logs) = 2

\* C11: between two consecutive reads of the loop there is one delay, of the
\* fixed 100 ms whatever the read returned, and every read of the loop is
\* of the conversion register with the arguments of the read before it.
C11_OneDelayIdenticalRead ==
    /\ [](pc = "loop_read" /\ fn = "read" => naps = <<100>>)
    /\ [][(pc = "loop_read" /\ fn = "read" /\ pc' = "read_build_ptr") =>
            /\ reg_address' = 0
            /\ reg_address' = reg_address
            /\ data_len' = data_len]_vars

\* the names of the calls made while initializing, in order
Kinds(t) == [i \in 1..Len(t) |-> t[i][1]]
IsBusCall(ev) == ev[1] \in {"i2c_driver_install", "i2c_param_config"}
BusCalls == Kinds(SelectSeq(trace, IsBusCall))

\* C12 as stated: the bus configuration call comes before the driver
\* installation call, and neither is made twice.
C12_ConfigBeforeInstall ==
    BusCalls \in {<<>>, <<"i2c_param_config">>,
                  <<"i2c_param_config", "i2c_driver_install">>}

\* C12 amended: the driver installation call comes first and is made once;
\* the bus configuration call follows it, is made once, and only after the
\* installation returned ESP_OK; both have been made, in this order, before
\* anything else of the task runs.
C12_InstallBeforeConfig ==
    /\ BusCalls \in {<<>>, <<"i2c_driver_install">>,
                     <<"i2c_driver_install", "i2c_param_config">>}
    /\ Len(BusCalls) = 2 => installRet = ESP_OK
    /\ pc \notin {"init_delay", "install", "config", "abort"} =>
         BusCalls = <<"i2c_driver_install", "i2c_param_config">>

C12_Witness ==
    /\ pc = "init_write"
    /\ BusCalls = <<"i2c_driver_install", "i2c_param_config">>

InitPCs == {"init_delay", "install", "config", "init_write", "init_check"}

\* C13: initializing is the startup delay, then the bus setup, then one
\* write of one data byte to the configuration register (0x01), in this
\* order and once each; all of it is complete before the first read, and
\* once the loop has issued a read none of it runs again.
C13_InitOnceInOrder ==
    /\ \E n \in 0..4 :
         Kinds(trace) = SubSeq(<<"vTaskDelay", "i2c_driver_install",
                                 "i2c_param_config", "write">>, 1, n)
    /\ Len(trace) >= 1 => trace[1] = <<"vTaskDelay", 100>>
    /\ Len(trace) = 4 =>
         /\ trace[2][2] = ESP_OK
         /\ trace[3][2] = ESP_OK
         /\ trace[4][2] = 1
         /\ Len(trace[4][3]) = 1
         /\ trace[4][4] = 1
    /\ fn = "write" =>
         /\ Len(trace) = 4
         /\ retTo = "init_check"
         /\ Len(sub) <= 1
         /\ Len(sub) = 1 =>
              /\ Len(sub[1].txn) = 5
              /\ sub[1].txn[3] = <<"write", 1, 1>>
              /\ sub[1].txn[4][2] = trace[4][3][1]
    /\ fn = "read" =>
         /\ Len(trace) = 4
         /\ retTo = "loop_branch"
         /\ pc \notin (InitPCs \cup WritePCs)

C13_Witness ==
    /\ fn = "read"
    /\ pc = "read_build_ptr"
    /\ Len(trace) = 4
    /\ result = ESP_OK
    /\ sub = <<>>
    /\ naps = <<>>
    /\ logs = <<>>

\* C14 as stated: the error line of a failed read carries the status the
\* read returned.
C14_ErrorLineCarriesStatus ==
    (pc = "loop_delay" /\ result \in Failures) =>
      \E i \in 1..Len(logs) :
        /\ logs[i][1] = "E"
        /\ \E k \in 1..Len(logs[i][3]) : logs[i][3][k] = result

\* C14 amended: the status the driver reported reaches the task unchanged
\* and decides the branch, but the error line is one fixed text with no
\* argument, so it is the same record for every failure status.
C14_ErrorLineFixedText ==
    (pc = "loop_delay" /\ result \in Failures) =>
      /\ result = sub[Len(sub)].status
      /\ logs = <<<<"E", "No ack, sensor not connected...skip...\n", <<>>>>>>

C14_Witness ==
    /\ pc = "loop_delay"
    /\ result = ESP_ERR_TIMEOUT
    /\ Len(sub) = 2
    /\ logs = <<ErrorLine>>

\* C15: the loop is never left: the task never reaches the call of
\* i2c_driver_delete after it, whatever the driver returns, and once the loop
\* has issued a read the task stays in the loop or in that read.
C15_LoopNeverExits ==
    /\ pc # "driver_delete"
    /\ fn = "read" =>
         pc \in ReadPCs \cup {"loop_branch", "loop_log_data", "loop_delay", "loop_read"}

C15_Witness ==
    /\ pc = "loop_read"
    /\ fn = "read"
    /\ result = ESP_ERR_INVALID_STATE
    /\ naps = <<LOOP_DELAY_MS>>

\* the positions between the creation of a command link and its deletion
LinkLivePCs == {"write_begin", "write_delete", "read_begin_ptr", "read_delete_ptr",
                "read_begin_data", "read_delete_data"}

\* C16: at most one command link is live, and one is live exactly from its
\* creation, through its submission, to its deletion inside write or read:
\* none is live at the return of either (the early return of read
\* included), while the task sleeps, logs or is between calls, and a link is
\* never deleted before it was submitted.
C16_LinksBalanced ==
    /\ links \in {0, 1}
    /\ links = 1 <=> pc \in LinkLivePCs
    /\ pc \in {"write_delete", "read_delete_ptr", "read_delete_data"} =>
         /\ Len(sub) >= 1
         /\ sub[Len(sub)].txn = cmd
    /\ pc \in {"write_begin", "read_begin_ptr", "read_begin_data"} =>
         Len(sub) = (IF pc = "read_begin_data" THEN 1 ELSE 0)

C16_Witness ==
    /\ pc = "loop_branch"
    /\ Len(sub) = 1
    /\ sub[1].status = ESP_ERR_INVALID_ARG
    /\ links = 0

\* C17: a transaction is submitted, by write or by read, only in a run in
\* which i2c_driver_install and i2c_param_config have both returned ESP_OK
\* before; neither function is even entered otherwise.
C17_SubmitOnlyAfterBusReady ==
    (sub # <<>> \/ fn # "none" \/ pc \in (WritePCs \cup ReadPCs)) =>
      /\ installRet = ESP_OK
      /\ configRet = ESP_OK
      /\ Len(trace) >= 3
      /\ trace[2] = <<"i2c_driver_install", ESP_OK>>
      /\ trace[3] = <<"i2c_param_config", ESP_OK>>

C17_Witness ==
    /\ fn = "write"
    /\ pc = "write_delete"
    /\ Len(sub) = 1
    /\ installRet = ESP_OK
    /\ configRet = ESP_OK

\* C18: what the task puts on the bus is fixed by the program and the
\* statuses the driver has returned: from a state of the task, a step that
\* takes no answer from the driver has one outcome for the bytes and the
\* length of the next transaction, the data byte of the configuration write
\* included.
C18_WireDetermined ==
    /\ \A b1, b2 \in Bytes :
         (/\ ENABLED (ADS1115_init_Write /\ data' = <<b1>>)
          /\ ENABLED (ADS1115_init_Write /\ data' = <<b2>>)) => b1 = b2
    /\ \A n1, n2 \in 0..MaxLen :
         (/\ ENABLED (task_Read /\ data_len' = n1)
          /\ ENABLED (task_Read /\ data_len' = n2)) => n1 = n2

\* C19: during a read the caller's buffer is changed by one step only, the
\* submission of the data transaction, and that step is taken only after the
\* pointer-set submission returned ESP_OK; so a read that returns because the
\* pointer-set did not succeed has changed no byte of the buffer.
C19_EarlyReturnLeavesBuffer ==
    [][(fn = "read" /\ data' # data) =>
          /\ pc = "read_begin_data"
          /\ Len(sub) = 1
          /\ sub[1].status = ESP_OK
          /\ Len(sub') = 2
          /\ sub'[2].site = "data"]_vars

C19_Witness ==
    /\ fn = "read"
    /\ Returned
    /\ Len(sub) = 1
    /\ sub[1].status = ESP_FAIL
    /\ data_len = 2
    /\ data[1] # data[2]

====
